---- MODULE Spec2Model ----
(***************************************************************************)
(* Copy-on-write trie (src/primer/trie.cpp) and the concurrent store that  *)
(* publishes its versions (src/primer/trie_store.cpp).                     *)
(*                                                                         *)
(* Nodes live in a heap: heap[a] is the node at address a, address 0 is    *)
(* nullptr.  A shared_ptr is an address; make_shared appends a node to the *)
(* heap.  Nodes are never freed in the model (a node that lost its last    *)
(* owner is unreachable garbage).                                          *)
(***************************************************************************)
EXTENDS Integers, Sequences, FiniteSets, TLC

VARIABLES
  heap,        \* the nodes, by address
  fault,       \* the process has died on a null dereference
  tries,       \* Trie histories: the roots of the tries made so far
  last,        \* Trie histories: the latest call
  amap,        \* Trie histories: the map the calls denote
  root_,       \* TrieStore::root_, the current trie
  root_lock_,  \* TrieStore::root_lock_: 0, or the thread that holds it
  write_lock_, \* TrieStore::write_lock_: 0, or the thread that holds it
  pc,          \* per thread: the statement of TrieStore it is about to run
  loc,         \* per thread: the arguments and locals of its call
  calls,       \* number of TrieStore calls started
  published,   \* the values root_ has had, oldest first
  smap         \* the map denoted by the writes, in writer-lock order

trieVars == <<tries, last, amap>>
obsVars == <<published, smap>>
storeVars == <<root_, root_lock_, write_lock_, pc, loc, calls, published, smap>>
vars == <<heap, fault, tries, last, amap,
          root_, root_lock_, write_lock_, pc, loc, calls, published, smap>>

\* ------------------------------------------------------------------ bounds
\* Number of Trie operations in one history.
MaxOps == 3
\* Number of TrieStore calls in one run, over all threads.
MaxCalls == 3

Threads == {1, 2, 3}
StoreKeys == {<<>>, <<"a">>}
\* The store passes the type through to the trie; one type drives it.
StoreTypes == {"uint32"}

Chars == {"a", "b"}
\* "" , a leaf, a key with descendants, keys sharing a prefix, another branch.
Keys == {<<>>, <<"a">>, <<"a", "a">>, <<"a", "b">>, <<"b">>}
Types == {"uint32", "string"}
Values == {1, 2}

nullptr == 0
NullOpt == <<>>
Some(v) == <<v>>
NoChildren == [c \in {} |-> nullptr]

\* ------------------------------------------------------------------ nodes
\* TrieNode(children): a node without a value.
TrieNode(children) ==
  [children |-> children, is_value_node |-> FALSE, ty |-> "none", value |-> 0]

\* TrieNodeWithValue<T>(children, value): a node carrying a value of type T.
TrieNodeWithValue(children, T, v) ==
  [children |-> children, is_value_node |-> TRUE, ty |-> T, value |-> v]

\* Clone(): a new node with the same edges and the same value (if any).
Clone(n) ==
  [children |-> n.children, is_value_node |-> n.is_value_node,
   ty |-> n.ty, value |-> n.value]

\* make_shared: the new node gets the next free address, Len(result).
MakeShared(h, n) == Append(h, n)

\* node->children_[ch] = child, on the node at address a.
SetChild(h, a, ch, child) ==
  [h EXCEPT ![a].children = (ch :> child) @@ h[a].children]

\* children_.erase(ch)
Erase(children, ch) == [c \in (DOMAIN children) \ {ch} |-> children[c]]

\* ------------------------------------------------------------------ Get
\* The for loop of Trie::Get: the address reached, or nullptr on a missing edge.
RECURSIVE GetWalk(_, _, _)
GetWalk(h, node, key) ==
  IF key = <<>> THEN node
  ELSE IF Head(key) \notin DOMAIN h[node].children THEN nullptr
  ELSE GetWalk(h, h[node].children[Head(key)], Tail(key))

\* Get that static-casts instead of checking the type of the value node.
Get_nocast(h, root, key, T) ==
  IF root = nullptr THEN NullOpt
  ELSE LET node == GetWalk(h, root, key) IN
    IF node = nullptr THEN NullOpt
    ELSE IF ~h[node].is_value_node THEN NullOpt
    ELSE Some(h[node].value)

\* Trie::Get<T>(key) on the trie whose root is at address root.
Get(h, root, key, T) ==
  IF root = nullptr THEN NullOpt
  ELSE LET node == GetWalk(h, root, key) IN
    IF node = nullptr THEN NullOpt
    ELSE IF ~h[node].is_value_node THEN NullOpt
    ELSE IF h[node].ty # T THEN NullOpt
    ELSE Some(h[node].value)

\* ------------------------------------------------------------------ Put
\* Put's start for a non-empty key that walks the shared root itself.
PutRoot_inplace(h, root) ==
  IF root # nullptr THEN [heap |-> h, node |-> root]
  ELSE [heap |-> MakeShared(h, TrieNode(NoChildren)), node |-> Len(h) + 1]

\* Put's start that also copies the root's child under "b" instead of sharing it.
PutRoot_deep(h, root) ==
  IF root = nullptr
  THEN [heap |-> MakeShared(h, TrieNode(NoChildren)), node |-> Len(h) + 1]
  ELSE LET h1 == MakeShared(h, Clone(h[root]))
           r == Len(h1)
       IN IF "b" \in DOMAIN h1[r].children
          THEN LET h2 == MakeShared(h1, Clone(h1[h1[r].children["b"]]))
               IN [heap |-> SetChild(h2, r, "b", Len(h2)), node |-> r]
          ELSE [heap |-> h1, node |-> r]

\* The start of Trie::Put for a non-empty key: the private node the walk
\* begins at, a clone of the root or a new empty node.
PutRoot(h, root) ==
  LET h1 == IF root # nullptr
            THEN MakeShared(h, Clone(h[root]))
            ELSE MakeShared(h, TrieNode(NoChildren))
  IN [heap |-> h1, node |-> Len(h1)]

\* One round of Put's while loop at the private node: the child under ch is
\* replaced by a clone of itself, or by a new empty node when there is none.
PutStep(h, node, ch) ==
  LET h1 == IF ch \in DOMAIN h[node].children
            THEN MakeShared(h, Clone(h[h[node].children[ch]]))
            ELSE MakeShared(h, TrieNode(NoChildren))
  IN [heap |-> SetChild(h1, node, ch, Len(h1)), node |-> Len(h1)]

\* Put's tail that leaves an existing node under the last character alone.
PutValueNode_keep(h, node, ch, T, v) ==
  IF ch \in DOMAIN h[node].children
  THEN h
  ELSE LET h1 == MakeShared(h, TrieNodeWithValue(NoChildren, T, v))
       IN SetChild(h1, node, ch, Len(h1))

\* The tail of Trie::Put: the value node under the last character, which
\* inherits the children of the node it replaces.
PutValueNode(h, node, ch, T, v) ==
  LET value_node == IF ch \in DOMAIN h[node].children
                    THEN TrieNodeWithValue(h[h[node].children[ch]].children, T, v)
                    ELSE TrieNodeWithValue(NoChildren, T, v)
      h1 == MakeShared(h, value_node)
  IN SetChild(h1, node, ch, Len(h1))

\* The while loop of Trie::Put followed by its tail.
RECURSIVE PutWalk(_, _, _, _, _)
PutWalk(h, node, key, T, v) ==
  IF Len(key) > 1
  THEN LET s == PutStep(h, node, Head(key))
       IN PutWalk(s.heap, s.node, Tail(key), T, v)
  ELSE PutValueNode(h, node, Head(key), T, v)

\* Put whose empty-key case builds the value node without the root's children.
Put_dropchildren(h, root, key, T, v) ==
  IF key = <<>>
  THEN LET h1 == MakeShared(h, TrieNodeWithValue(NoChildren, T, v))
       IN [heap |-> h1, root |-> Len(h1)]
  ELSE LET s == PutRoot(h, root)
       IN [heap |-> PutWalk(s.heap, s.node, key, T, v), root |-> s.node]

\* Trie::Put<T>(key, value): the new heap and the root of the new trie.
Put(h, root, key, T, v) ==
  IF key = <<>>
  THEN LET h1 == IF root # nullptr
                 THEN MakeShared(h, TrieNodeWithValue(h[root].children, T, v))
                 ELSE MakeShared(h, TrieNodeWithValue(NoChildren, T, v))
       IN [heap |-> h1, root |-> Len(h1)]
  ELSE LET s == PutRoot(h, root)
       IN [heap |-> PutWalk(s.heap, s.node, key, T, v), root |-> s.node]

\* ------------------------------------------------------------------ Remove
\* The first loop of Trie::Remove: walks the key from node, pushing the
\* nodes it leaves on nodeStk.  found is FALSE on a missing edge.
RECURSIVE RemoveWalk(_, _, _, _)
RemoveWalk(h, node, key, nodeStk) ==
  IF key = <<>> THEN [found |-> TRUE, node |-> node, nodeStk |-> nodeStk]
  ELSE IF Head(key) \notin DOMAIN h[node].children
       THEN [found |-> FALSE, node |-> node, nodeStk |-> nodeStk]
       ELSE RemoveWalk(h, h[node].children[Head(key)], Tail(key),
                       Append(nodeStk, node))

\* Remove's terminal step that clones the node, value included.
RemoveTerminal_clone(h, node) ==
  IF DOMAIN h[node].children = {}
  THEN [heap |-> h, node |-> nullptr]
  ELSE [heap |-> MakeShared(h, Clone(h[node])), node |-> Len(h) + 1]

\* The replacement of the node that held the value: none when it has no
\* children, else a new value-less node with the same children.
RemoveTerminal(h, node) ==
  IF DOMAIN h[node].children = {}
  THEN [heap |-> h, node |-> nullptr]
  ELSE [heap |-> MakeShared(h, TrieNode(h[node].children)), node |-> Len(h) + 1]

\* A fold-back round that prunes only a parent without any edge.
RemoveStep_never(h, node, ch, parent) ==
  LET h1 == MakeShared(h, Clone(h[parent]))
      parentNode == Len(h1)
  IN IF node # nullptr
     THEN [heap |-> SetChild(h1, parentNode, ch, node), node |-> parentNode]
     ELSE IF Cardinality(DOMAIN h1[parentNode].children) < 1
             /\ ~h1[parentNode].is_value_node
          THEN [heap |-> h1, node |-> nullptr]
          ELSE [heap |-> [h1 EXCEPT ![parentNode].children = Erase(@, ch)],
                node |-> parentNode]

\* One round of Remove's fold-back loop: parent (the top of nodeStk) is
\* cloned; the clone gets node under ch, or loses the edge ch, or is dropped.
RemoveStep(h, node, ch, parent) ==
  LET h1 == MakeShared(h, Clone(h[parent]))
      parentNode == Len(h1)
  IN IF node # nullptr
     THEN [heap |-> SetChild(h1, parentNode, ch, node), node |-> parentNode]
     ELSE IF Cardinality(DOMAIN h1[parentNode].children) <= 1
             /\ ~h1[parentNode].is_value_node
          THEN [heap |-> h1, node |-> nullptr]
          ELSE [heap |-> [h1 EXCEPT ![parentNode].children = Erase(@, ch)],
                node |-> parentNode]

\* The fold-back loop of Trie::Remove, over the key in reverse; node is the
\* replacement for the child under the last character of key (nullptr: none).
RECURSIVE RemoveFold(_, _, _, _)
RemoveFold(h, node, key, nodeStk) ==
  IF key = <<>> THEN [heap |-> h, root |-> node]
  ELSE LET s == RemoveStep(h, node, key[Len(key)], nodeStk[Len(nodeStk)])
       IN RemoveFold(s.heap, s.node, SubSeq(key, 1, Len(key) - 1),
                     SubSeq(nodeStk, 1, Len(nodeStk) - 1))

\* Trie::Remove(key).  With root_ == nullptr the code dereferences a null
\* shared_ptr (node->children_ for a non-empty key, node->is_value_node_ for
\* the empty key): the read of an unmapped address ends the process, which is
\* the fault outcome; no trie is returned.
Remove(h, root, key) ==
  IF root = nullptr THEN [heap |-> h, root |-> root, fault |-> TRUE]
  ELSE LET w == RemoveWalk(h, root, key, <<>>) IN
    IF ~w.found THEN [heap |-> h, root |-> root, fault |-> FALSE]
    ELSE IF ~h[w.node].is_value_node THEN [heap |-> h, root |-> root, fault |-> FALSE]
    ELSE LET s == RemoveTerminal(h, w.node)
             r == RemoveFold(s.heap, s.node, key, w.nodeStk)
         IN [heap |-> r.heap, root |-> r.root, fault |-> FALSE]

\* ------------------------------------------------------------------ history
\* The trie the next operation is applied to: the newest one.
Cur == tries[Len(tries)]

\* last records the latest call: the operation and its arguments, the trie
\* it was called on (t) and the number of nodes that existed before it (hlen).
NoOp == [op |-> "none", key |-> <<>>, ty |-> "none", value |-> 0,
         t |-> nullptr, hlen |-> 0]

\* The map the history denotes: key -> <<type, value>>, or <<>> when absent.
EmptyMap == [k \in Keys |-> <<>>]

\* What a map holding m gives for a lookup of k with type T.
MapGet(m, k, T) ==
  IF m[k] # <<>> /\ m[k][1] = T THEN Some(m[k][2]) ELSE NullOpt

\* A thread's locals before its first call.
NoCall == [op |-> "none", key |-> <<>>, ty |-> "none", value |-> 0,
           root |-> nullptr, ret |-> NullOpt, inv |-> 0]

\* A TrieStore after construction: the empty trie, both locks free.
StoreInit ==
  /\ root_ = nullptr
  /\ root_lock_ = 0
  /\ write_lock_ = 0
  /\ pc = [t \in Threads |-> "idle"]
  /\ loc = [t \in Threads |-> NoCall]
  /\ calls = 0
  /\ published = <<nullptr>>
  /\ smap = [k \in StoreKeys |-> <<>>]

TrieInit ==
  /\ tries = <<nullptr>>
  /\ last = NoOp
  /\ amap = EmptyMap

Init ==
  /\ heap = <<>>
  /\ fault = FALSE
  /\ TrieInit
  /\ StoreInit

\* t.Put<T>(key, v) on the newest trie; the result becomes the newest trie.
DoPut ==
  \E key \in Keys, T \in Types, v \in Values :
    /\ ~fault
    /\ Len(tries) <= MaxOps
    /\ LET r == Put(heap, Cur, key, T, v) IN
         /\ heap' = r.heap
         /\ tries' = Append(tries, r.root)
    /\ last' = [op |-> "Put", key |-> key, ty |-> T, value |-> v,
                t |-> Cur, hlen |-> Len(heap)]
    /\ amap' = [amap EXCEPT ![key] = <<T, v>>]
    /\ fault' = FALSE
    /\ UNCHANGED storeVars

\* t.Remove(key) on the newest trie.  A fault returns no trie.
DoRemove ==
  \E key \in Keys :
    /\ ~fault
    /\ Len(tries) <= MaxOps
    /\ LET r == Remove(heap, Cur, key) IN
         /\ heap' = r.heap
         /\ tries' = IF r.fault THEN tries ELSE Append(tries, r.root)
         /\ fault' = r.fault
    /\ last' = [op |-> "Remove", key |-> key, ty |-> "none", value |-> 0,
                t |-> Cur, hlen |-> Len(heap)]
    /\ amap' = [amap EXCEPT ![key] = <<>>]
    /\ UNCHANGED storeVars

Next == DoPut \/ DoRemove

Spec == Init /\ [][Next]_vars

\* ------------------------------------------------------------------ store
\* Every statement of a TrieStore method is one step of the calling thread;
\* pc[t] names the source line of trie_store.cpp the thread runs next.
\* std::mutex: lock() waits until the mutex is free.

\* A thread may start a call when it is idle and the run has calls left.
\* Threads that have not called yet are interchangeable: they start in the
\* order of their numbers.
MayCall(t) ==
  /\ ~fault /\ pc[t] = "idle" /\ calls < MaxCalls
  /\ \A u \in Threads : u < t => loc[u].op # "none"

\* A thread calls Get<T>(key).
CallGet(t) ==
  \E key \in StoreKeys, T \in StoreTypes :
    /\ MayCall(t)
    /\ pc' = [pc EXCEPT ![t] = "G27"]
    /\ loc' = [loc EXCEPT ![t] = [op |-> "Get", key |-> key, ty |-> T,
                                  value |-> 0, root |-> nullptr, ret |-> NullOpt,
                                  inv |-> Len(published)]]
    /\ calls' = calls + 1
    /\ UNCHANGED <<heap, fault, trieVars, obsVars, root_, root_lock_, write_lock_>>

\* line 27: std::unique_lock<std::mutex> lock(root_lock_);
G27(t) ==
  /\ ~fault /\ pc[t] = "G27" /\ root_lock_ = 0
  /\ root_lock_' = t
  /\ pc' = [pc EXCEPT ![t] = "G29"]
  /\ UNCHANGED <<heap, fault, trieVars, obsVars, root_, write_lock_, loc, calls>>

\* line 29: Trie root = this->root_;
G29(t) ==
  /\ ~fault /\ pc[t] = "G29"
  /\ loc' = [loc EXCEPT ![t].root = root_]
  /\ pc' = [pc EXCEPT ![t] = "G31"]
  /\ UNCHANGED <<heap, fault, trieVars, obsVars, root_, root_lock_, write_lock_, calls>>

\* line 31: lock.unlock();
G31(t) ==
  /\ ~fault /\ pc[t] = "G31"
  /\ root_lock_' = 0
  /\ pc' = [pc EXCEPT ![t] = "G34"]
  /\ UNCHANGED <<heap, fault, trieVars, obsVars, root_, write_lock_, loc, calls>>

\* Get that looks the key up in the store's root_ instead of its own copy.
G34_live(t) ==
  /\ ~fault /\ pc[t] = "G34"
  /\ loc' = [loc EXCEPT ![t].ret = Get(heap, root_, loc[t].key, loc[t].ty)]
  /\ pc' = [pc EXCEPT ![t] = "idle"]
  /\ UNCHANGED <<heap, fault, trieVars, obsVars, root_, root_lock_, write_lock_, calls>>

\* lines 34-40: the lookup in the copy; the call returns nullopt or a
\* ValueGuard of the copy (loc[t].root) and the value.
G34(t) ==
  /\ ~fault /\ pc[t] = "G34"
  /\ loc' = [loc EXCEPT ![t].ret = Get(heap, loc[t].root, loc[t].key, loc[t].ty)]
  /\ pc' = [pc EXCEPT ![t] = "idle"]
  /\ UNCHANGED <<heap, fault, trieVars, obsVars, root_, root_lock_, write_lock_, calls>>

\* A thread calls Put<T>(key, value).  The value is the number of the call,
\* so that every Put of a run writes a value of its own.
CallPut(t) ==
  \E key \in StoreKeys, T \in StoreTypes :
    /\ MayCall(t)
    /\ pc' = [pc EXCEPT ![t] = "P51"]
    /\ loc' = [loc EXCEPT ![t] = [op |-> "Put", key |-> key, ty |-> T,
                                  value |-> calls + 1, root |-> nullptr, ret |-> NullOpt,
                                  inv |-> 0]]
    /\ calls' = calls + 1
    /\ UNCHANGED <<heap, fault, trieVars, obsVars, root_, root_lock_, write_lock_>>

\* Put entered without waiting for the writer lock.
P51_nowait(t) ==
  /\ ~fault /\ pc[t] = "P51"
  /\ write_lock_' = t
  /\ pc' = [pc EXCEPT ![t] = "P53"]
  /\ smap' = [smap EXCEPT ![loc[t].key] = <<loc[t].ty, loc[t].value>>]
  /\ UNCHANGED <<heap, fault, trieVars, published, root_, root_lock_, loc, calls>>

\* line 51: std::unique_lock<std::mutex> write_lock(write_lock_);
P51(t) ==
  /\ ~fault /\ pc[t] = "P51" /\ write_lock_ = 0
  /\ write_lock_' = t
  /\ pc' = [pc EXCEPT ![t] = "P53"]
  /\ smap' = [smap EXCEPT ![loc[t].key] = <<loc[t].ty, loc[t].value>>]
  /\ UNCHANGED <<heap, fault, trieVars, published, root_, root_lock_, loc, calls>>

\* line 53: std::unique_lock<std::mutex> root_lock(root_lock_);
P53(t) ==
  /\ ~fault /\ pc[t] = "P53" /\ root_lock_ = 0
  /\ root_lock_' = t
  /\ pc' = [pc EXCEPT ![t] = "P55"]
  /\ UNCHANGED <<heap, fault, trieVars, obsVars, root_, write_lock_, loc, calls>>

\* line 55: Trie root = this->root_;
P55(t) ==
  /\ ~fault /\ pc[t] = "P55"
  /\ loc' = [loc EXCEPT ![t].root = root_]
  /\ pc' = [pc EXCEPT ![t] = "P57"]
  /\ UNCHANGED <<heap, fault, trieVars, obsVars, root_, root_lock_, write_lock_, calls>>

\* Put that keeps root_lock_ while it computes.
P57_keep(t) ==
  /\ ~fault /\ pc[t] = "P57"
  /\ pc' = [pc EXCEPT ![t] = "P59"]
  /\ UNCHANGED <<heap, fault, trieVars, obsVars, root_, root_lock_, write_lock_, loc, calls>>

\* line 57: root_lock.unlock();
P57(t) ==
  /\ ~fault /\ pc[t] = "P57"
  /\ root_lock_' = 0
  /\ pc' = [pc EXCEPT ![t] = "P59"]
  /\ UNCHANGED <<heap, fault, trieVars, obsVars, root_, write_lock_, loc, calls>>

\* Put that builds on a new empty Trie instead of the copy of root_.
P59_fresh(t) ==
  /\ ~fault /\ pc[t] = "P59"
  /\ LET r == Put(heap, nullptr, loc[t].key, loc[t].ty, loc[t].value) IN
       /\ heap' = r.heap
       /\ loc' = [loc EXCEPT ![t].root = r.root]
  /\ pc' = [pc EXCEPT ![t] = "P61"]
  /\ UNCHANGED <<fault, trieVars, obsVars, root_, root_lock_, write_lock_, calls>>

\* line 59: root = root.Put<T>(key, std::move(value));
P59(t) ==
  /\ ~fault /\ pc[t] = "P59"
  /\ LET r == Put(heap, loc[t].root, loc[t].key, loc[t].ty, loc[t].value) IN
       /\ heap' = r.heap
       /\ loc' = [loc EXCEPT ![t].root = r.root]
  /\ pc' = [pc EXCEPT ![t] = "P61"]
  /\ UNCHANGED <<fault, trieVars, obsVars, root_, root_lock_, write_lock_, calls>>

\* Put that goes on to write root_ without taking root_lock_.
P61_skip(t) ==
  /\ ~fault /\ pc[t] = "P61"
  /\ pc' = [pc EXCEPT ![t] = "P63"]
  /\ UNCHANGED <<heap, fault, trieVars, obsVars, root_, root_lock_, write_lock_, loc, calls>>

\* line 61: root_lock.lock();
P61(t) ==
  /\ ~fault /\ pc[t] = "P61" /\ root_lock_ = 0
  /\ root_lock_' = t
  /\ pc' = [pc EXCEPT ![t] = "P63"]
  /\ UNCHANGED <<heap, fault, trieVars, obsVars, root_, write_lock_, loc, calls>>

\* line 63: this->root_ = root;
P63(t) ==
  /\ ~fault /\ pc[t] = "P63"
  /\ root_' = loc[t].root
  /\ pc' = [pc EXCEPT ![t] = "P65"]
  /\ published' = Append(published, loc[t].root)
  /\ UNCHANGED <<heap, fault, trieVars, smap, root_lock_, write_lock_, loc, calls>>

\* line 65: root_lock.unlock();
P65(t) ==
  /\ ~fault /\ pc[t] = "P65"
  /\ root_lock_' = 0
  /\ pc' = [pc EXCEPT ![t] = "P67"]
  /\ UNCHANGED <<heap, fault, trieVars, obsVars, root_, write_lock_, loc, calls>>

\* line 67: write_lock.unlock(); the call returns.
P67(t) ==
  /\ ~fault /\ pc[t] = "P67"
  /\ write_lock_' = 0
  /\ pc' = [pc EXCEPT ![t] = "idle"]
  /\ UNCHANGED <<heap, fault, trieVars, obsVars, root_, root_lock_, loc, calls>>

\* A thread calls Remove(key).
CallRemove(t) ==
  \E key \in StoreKeys :
    /\ MayCall(t)
    /\ pc' = [pc EXCEPT ![t] = "R74"]
    /\ loc' = [loc EXCEPT ![t] = [op |-> "Remove", key |-> key, ty |-> "none",
                                  value |-> 0, root |-> nullptr, ret |-> NullOpt,
                                  inv |-> 0]]
    /\ calls' = calls + 1
    /\ UNCHANGED <<heap, fault, trieVars, obsVars, root_, root_lock_, write_lock_>>

\* line 74: std::unique_lock<std::mutex> write_lock(write_lock_);
R74(t) ==
  /\ ~fault /\ pc[t] = "R74" /\ write_lock_ = 0
  /\ write_lock_' = t
  /\ pc' = [pc EXCEPT ![t] = "R76"]
  /\ smap' = [smap EXCEPT ![loc[t].key] = <<>>]
  /\ UNCHANGED <<heap, fault, trieVars, published, root_, root_lock_, loc, calls>>

\* line 76: std::unique_lock<std::mutex> root_lock(root_lock_);
R76(t) ==
  /\ ~fault /\ pc[t] = "R76" /\ root_lock_ = 0
  /\ root_lock_' = t
  /\ pc' = [pc EXCEPT ![t] = "R78"]
  /\ UNCHANGED <<heap, fault, trieVars, obsVars, root_, write_lock_, loc, calls>>

\* line 78: Trie root = this->root_;
R78(t) ==
  /\ ~fault /\ pc[t] = "R78"
  /\ loc' = [loc EXCEPT ![t].root = root_]
  /\ pc' = [pc EXCEPT ![t] = "R80"]
  /\ UNCHANGED <<heap, fault, trieVars, obsVars, root_, root_lock_, write_lock_, calls>>

\* line 80: root_lock.unlock();
R80(t) ==
  /\ ~fault /\ pc[t] = "R80"
  /\ root_lock_' = 0
  /\ pc' = [pc EXCEPT ![t] = "R82"]
  /\ UNCHANGED <<heap, fault, trieVars, obsVars, root_, write_lock_, loc, calls>>

\* line 82: root = root.Remove(key);  On the empty trie Trie::Remove faults
\* and the process ends with the writer lock held.
R82(t) ==
  /\ ~fault /\ pc[t] = "R82"
  /\ LET r == Remove(heap, loc[t].root, loc[t].key) IN
       /\ heap' = r.heap
       /\ fault' = r.fault
       /\ loc' = [loc EXCEPT ![t].root = r.root]
       /\ pc' = [pc EXCEPT ![t] = IF r.fault THEN "R82" ELSE "R84"]
  /\ UNCHANGED <<trieVars, obsVars, root_, root_lock_, write_lock_, calls>>

\* line 84: root_lock.lock();
R84(t) ==
  /\ ~fault /\ pc[t] = "R84" /\ root_lock_ = 0
  /\ root_lock_' = t
  /\ pc' = [pc EXCEPT ![t] = "R86"]
  /\ UNCHANGED <<heap, fault, trieVars, obsVars, root_, write_lock_, loc, calls>>

\* line 86: this->root_ = root;
R86(t) ==
  /\ ~fault /\ pc[t] = "R86"
  /\ root_' = loc[t].root
  /\ pc' = [pc EXCEPT ![t] = "R88"]
  /\ published' = Append(published, loc[t].root)
  /\ UNCHANGED <<heap, fault, trieVars, smap, root_lock_, write_lock_, loc, calls>>

\* line 88: root_lock.unlock();
R88(t) ==
  /\ ~fault /\ pc[t] = "R88"
  /\ root_lock_' = 0
  /\ pc' = [pc EXCEPT ![t] = "R90"]
  /\ UNCHANGED <<heap, fault, trieVars, obsVars, root_, write_lock_, loc, calls>>

\* line 90: write_lock.unlock(); the call returns.
R90(t) ==
  /\ ~fault /\ pc[t] = "R90"
  /\ write_lock_' = 0
  /\ pc' = [pc EXCEPT ![t] = "idle"]
  /\ UNCHANGED <<heap, fault, trieVars, obsVars, root_, root_lock_, loc, calls>>

StoreGet(t) == CallGet(t) \/ G27(t) \/ G29(t) \/ G31(t) \/ G34(t)

StorePut(t) ==
  \/ CallPut(t) \/ P51(t) \/ P53(t) \/ P55(t) \/ P57(t)
  \/ P59(t) \/ P61(t) \/ P63(t) \/ P65(t) \/ P67(t)

StoreRemove(t) ==
  \/ CallRemove(t) \/ R74(t) \/ R76(t) \/ R78(t) \/ R80(t)
  \/ R82(t) \/ R84(t) \/ R86(t) \/ R88(t) \/ R90(t)

StoreNext == \E t \in Threads : StoreGet(t) \/ StorePut(t) \/ StoreRemove(t)

\* Threads calling into one TrieStore.
StoreSpec == Init /\ [][StoreNext]_vars

\* The steps of a call that thread t has started.
Running(t) ==
  \/ G27(t) \/ G29(t) \/ G31(t) \/ G34(t)
  \/ P51(t) \/ P53(t) \/ P55(t) \/ P57(t) \/ P59(t)
  \/ P61(t) \/ P63(t) \/ P65(t) \/ P67(t)
  \/ R74(t) \/ R76(t) \/ R78(t) \/ R80(t) \/ R82(t)
  \/ R84(t) \/ R86(t) \/ R88(t) \/ R90(t)

\* Threads calling into one TrieStore, each scheduled again and again while
\* it can take a step.
FairStoreSpec == StoreSpec /\ \A t \in Threads : WF_vars(Running(t))

\* ------------------------------------------------------------------ helpers
\* The addresses of the nodes reachable from the node at address a.
RECURSIVE Reach(_, _)
Reach(h, a) ==
  IF a = nullptr THEN {}
  ELSE {a} \cup UNION {Reach(h, h[a].children[c]) : c \in DOMAIN h[a].children}

\* The node at position key of the trie rooted at root, nullptr if none.
NodeAt(h, root, key) ==
  IF root = nullptr THEN nullptr ELSE GetWalk(h, root, key)

\* key holds a value (of some type) in the trie rooted at root.
Holds(h, root, key) == \E T \in Types : Get(h, root, key, T) # NullOpt

\* The trie rooted at r1 and the one rooted at r2 answer every Get alike.
SameGets(h, r1, r2) ==
  \A k \in Keys, T \in Types : Get(h, r1, k, T) = Get(h, r2, k, T)

\* ------------------------------------------------------------------ claims
\* C1: t.Put<T>(k, v).Get<T>(k) returns v, for every trie t, key k, value v.
C1_PutGet ==
  last.op = "Put" => Get(heap, Cur, last.key, last.ty) = Some(last.value)

\* C1 witness: a Put that overwrote a key whose node held another value and
\* had a descendant.
C1_Witness ==
  /\ last.op = "Put" /\ last.key = <<"a">> /\ last.t # nullptr
  /\ Holds(heap, last.t, <<"a">>)
  /\ Get(heap, last.t, <<"a">>, last.ty) # Some(last.value)
  /\ NodeAt(heap, last.t, <<"a", "b">>) # nullptr
  /\ Get(heap, Cur, <<"a">>, last.ty) = Some(last.value)

\* C2 (as claimed): Remove of a key absent from t returns t itself, builds no
\* node and changes no Get result.
C2_RemoveAbsentSame ==
  (last.op = "Remove" /\ ~Holds(heap, last.t, last.key)) =>
    /\ ~fault
    /\ Cur = last.t
    /\ Len(heap) = last.hlen
    /\ SameGets(heap, Cur, last.t)

\* C3 (as claimed): Remove of a key that is not there never faults.
C3_RemoveNeverFaults == ~fault

\* C4: after Remove(k) of a key that held a value, Get<T>(k) is absent for
\* every type T.
C4_RemoveGet ==
  (last.op = "Remove" /\ Holds(heap, last.t, last.key)) =>
    /\ ~fault
    /\ \A T \in Types : Get(heap, Cur, last.key, T) = NullOpt

\* C4 witness: the removed key was a node with a descendant that is still
\* there.
C4_Witness ==
  /\ last.op = "Remove" /\ last.key = <<"a">>
  /\ Holds(heap, last.t, <<"a">>)
  /\ Holds(heap, Cur, <<"a", "a">>)
  /\ ~Holds(heap, Cur, <<"a">>)

\* C5 (as claimed): Put and Remove on k leave Get(k') as it was for every
\* other key k'.
C5_Frame ==
  last.op \in {"Put", "Remove"} =>
    /\ ~fault
    /\ \A k \in Keys \ {last.key}, T \in Types :
         Get(heap, Cur, k, T) = Get(heap, last.t, k, T)

\* C6: an operation changes no node reachable from an existing trie, and no
\* Get result of an existing trie.
C6_Step ==
  \A i \in DOMAIN tries :
    /\ i \in DOMAIN tries' /\ tries'[i] = tries[i]
    /\ \A a \in Reach(heap, tries[i]) : heap'[a] = heap[a]
    /\ \A k \in Keys, T \in Types :
         Get(heap', tries[i], k, T) = Get(heap, tries[i], k, T)

C6_Immutable == [][C6_Step]_vars

\* C6 witness: two operations after a trie holding "a" was made, that trie
\* still answers as when it was made although "a" was overwritten since.
C6_Witness ==
  /\ Len(tries) >= 4
  /\ Holds(heap, tries[2], <<"a">>)
  /\ \E T \in Types :
       /\ Get(heap, tries[2], <<"a">>, T) # NullOpt
       /\ Get(heap, Cur, <<"a">>, T) # Get(heap, tries[2], <<"a">>, T)
  /\ NodeAt(heap, tries[3], <<"a", "a">>) # nullptr

\* C7 (as claimed): after any sequence of Put and Remove from the empty trie,
\* every call has returned and Get answers as the map the sequence denotes.
C7_Map ==
  /\ ~fault
  /\ \A k \in Keys, T \in Types : Get(heap, Cur, k, T) = MapGet(amap, k, T)

\* C8: a key whose latest Put stored type T1 is absent for every other type,
\* and a Put of another type replaces the stored type.
C8_TypeMismatch ==
  /\ \A k \in Keys :
       amap[k] # <<>> =>
         /\ Get(heap, Cur, k, amap[k][1]) = Some(amap[k][2])
         /\ \A T2 \in Types \ {amap[k][1]} : Get(heap, Cur, k, T2) = NullOpt
  /\ last.op = "Put" =>
       /\ Get(heap, Cur, last.key, last.ty) = Some(last.value)
       /\ \A T1 \in Types \ {last.ty} : Get(heap, Cur, last.key, T1) = NullOpt

\* C8 witness: a Put<T2> on a key that held a value of type T1 # T2.
C8_Witness ==
  /\ last.op = "Put"
  /\ \E T1 \in Types \ {last.ty} : Get(heap, last.t, last.key, T1) # NullOpt
  /\ Get(heap, Cur, last.key, last.ty) = Some(last.value)

\* The positions of key that are proper prefixes of it, and key itself.
Prefixes(key) == {SubSeq(key, 1, n) : n \in 0..Len(key)}

\* C9: no trie of the history has a reachable node with neither a value nor
\* a child; and after a Remove that found its key, a position on the path is
\* gone exactly when, the removed edge gone, it has no child and no value.
C9_Pruned ==
  /\ \A i \in DOMAIN tries : \A a \in Reach(heap, tries[i]) :
       heap[a].is_value_node \/ DOMAIN heap[a].children # {}
  /\ (last.op = "Remove" /\ Holds(heap, last.t, last.key)) =>
       \A p \in Prefixes(last.key) :
         LET old == heap[NodeAt(heap, last.t, p)]
             kept == IF p = last.key
                     THEN DOMAIN old.children # {}
                     ELSE \/ old.is_value_node
                          \/ DOMAIN old.children # {last.key[Len(p) + 1]}
                          \/ NodeAt(heap, Cur,
                                    SubSeq(last.key, 1, Len(p) + 1)) # nullptr
         IN (NodeAt(heap, Cur, p) # nullptr) <=> kept

\* C9 witness: removing "ab", the only key, from a trie of three nodes gave
\* the empty trie.
C9_Witness ==
  /\ last.op = "Remove" /\ last.key = <<"a", "b">>
  /\ Holds(heap, last.t, <<"a", "b">>)
  /\ Cardinality(Reach(heap, last.t)) = 3
  /\ Cur = nullptr

\* The positions a node of a trie over Keys can have.
Positions ==
  {<<>>} \cup {<<c>> : c \in Chars} \cup {<<c, d>> : c \in Chars, d \in Chars}

\* C15: Put(k, v) and Remove(k) make at most Len(k) + 1 nodes; every node of
\* the new trie that is new lies at a prefix position of k; at every other
\* position the new trie has the very node of the prior trie; and the value
\* node Put makes has the child references of the node it replaces.
C15_Sharing ==
  (last.op \in {"Put", "Remove"} /\ ~fault) =>
    /\ Len(heap) - last.hlen <= Len(last.key) + 1
    /\ \A p \in Positions \ Prefixes(last.key) :
         NodeAt(heap, Cur, p) = NodeAt(heap, last.t, p)
    /\ \A a \in Reach(heap, Cur) :
         a > last.hlen => \E p \in Prefixes(last.key) : NodeAt(heap, Cur, p) = a
    /\ last.op = "Put" =>
         heap[NodeAt(heap, Cur, last.key)].children =
           IF NodeAt(heap, last.t, last.key) # nullptr
           THEN heap[NodeAt(heap, last.t, last.key)].children
           ELSE NoChildren

\* C15 witness: Put("a") on a trie that holds "aa" and "b": the node under
\* "b" and the node under "aa" are shared, the nodes at "" and "a" are new.
C15_Witness ==
  /\ last.op = "Put" /\ last.key = <<"a">> /\ ~fault
  /\ NodeAt(heap, last.t, <<"b">>) # nullptr
  /\ NodeAt(heap, last.t, <<"a", "a">>) # nullptr
  /\ NodeAt(heap, Cur, <<"b">>) = NodeAt(heap, last.t, <<"b">>)
  /\ NodeAt(heap, Cur, <<"a", "a">>) = NodeAt(heap, last.t, <<"a", "a">>)
  /\ NodeAt(heap, Cur, <<"a">>) > last.hlen
  /\ Cur > last.hlen

\* C16: Put("", v) gives a trie whose root is a value node carrying v with
\* exactly the children of the prior root (none for the empty trie); Get("")
\* is v and every other key answers as before.
C16_PutEmptyKey ==
  (last.op = "Put" /\ last.key = <<>>) =>
    /\ Cur # nullptr
    /\ heap[Cur].is_value_node
    /\ heap[Cur].ty = last.ty /\ heap[Cur].value = last.value
    /\ heap[Cur].children =
         IF last.t # nullptr THEN heap[last.t].children ELSE NoChildren
    /\ Get(heap, Cur, <<>>, last.ty) = Some(last.value)
    /\ \A k \in Keys \ {<<>>}, T \in Types :
         Get(heap, Cur, k, T) = Get(heap, last.t, k, T)

\* C16 witness: Put("", v) on a trie whose root held another value and had a
\* child.
C16_Witness ==
  /\ last.op = "Put" /\ last.key = <<>> /\ last.t # nullptr
  /\ Holds(heap, last.t, <<>>)
  /\ Get(heap, last.t, <<>>, last.ty) # Some(last.value)
  /\ DOMAIN heap[last.t].children # {}
  /\ heap[Cur].children = heap[last.t].children

\* A thread is inside Put/Remove between acquiring the writer lock and
\* releasing it.
InWrite(t) ==
  pc[t] \in {"P53", "P55", "P57", "P59", "P61", "P63", "P65", "P67",
             "R76", "R78", "R80", "R82", "R84", "R86", "R88", "R90"}

\* C10: at most one thread at a time is inside a Put/Remove between acquiring
\* and releasing the writer lock.
C10_SingleWriter == Cardinality({t \in Threads : InWrite(t)}) <= 1

\* C10 witness: one writer computes its trie while a second writer waits for
\* the writer lock and a third thread is inside Get.
C10_Witness ==
  \E w, x, g \in Threads :
    /\ pc[w] \in {"P59", "R82"}
    /\ pc[x] \in {"P51", "R74"}
    /\ pc[g] \in {"G29", "G34"}

\* A Get call of thread t has returned and t has made no call since.
Returned(t) == pc[t] = "idle" /\ loc[t].op = "Get"

\* C11: a Get that has returned holds a trie that was root_ at some instant
\* between its call and its return, and its result is the lookup in that trie.
C11_GetSeesPublished ==
  \A t \in Threads :
    Returned(t) =>
      \E i \in loc[t].inv .. Len(published) :
        /\ loc[t].root = published[i]
        /\ loc[t].ret = Get(heap, published[i], loc[t].key, loc[t].ty)

\* C11 witness: a Get called before a Put was published returned after it,
\* and found the value of the Put.
C11_Witness ==
  \E t \in Threads :
    /\ Returned(t) /\ loc[t].ret # NullOpt
    /\ loc[t].inv < Len(published)
    /\ loc[t].root = published[Len(published)]
    /\ loc[t].root # published[loc[t].inv]

\* Every call of a writer has returned.
WritersReturned ==
  \A t \in Threads : loc[t].op \in {"Put", "Remove"} => pc[t] = "idle"

\* The step in which a writer overwrites root_: the new root_ is the old one
\* with this writer's operation applied, and nothing else.
C12_Step ==
  \A t \in Threads :
    /\ (pc[t] = "P63" /\ pc'[t] = "P65") =>
         \A k \in StoreKeys, T \in Types :
           Get(heap', root_', k, T) =
             IF k # loc[t].key THEN Get(heap, root_, k, T)
             ELSE IF T = loc[t].ty THEN Some(loc[t].value) ELSE NullOpt
    /\ (pc[t] = "R86" /\ pc'[t] = "R88") =>
         \A k \in StoreKeys, T \in Types :
           Get(heap', root_', k, T) =
             IF k # loc[t].key THEN Get(heap, root_, k, T) ELSE NullOpt

\* C12: no write is lost: each published trie is the previous one with one
\* writer's operation applied, and once all writers have returned root_ is
\* the map of all writes applied in the order of the writer lock.
C12_NoLostWrite ==
  /\ [][C12_Step]_vars
  /\ [](WritersReturned =>
          \A k \in StoreKeys, T \in Types :
            Get(heap, root_, k, T) = MapGet(smap, k, T))

\* C12 witness: two Puts on different keys and a third write have returned
\* and root_ holds both keys.
C12_Witness ==
  /\ WritersReturned
  /\ Len(published) = 4
  /\ Holds(heap, root_, <<>>)
  /\ Holds(heap, root_, <<"a">>)

\* A ValueGuard is held by thread t: its Get returned a value, and t has made
\* no call since.  The guard is the trie loc[t].root and the value loc[t].ret.
HoldsGuard(t) == Returned(t) /\ loc[t].ret # NullOpt

\* C13: while a guard is held, its value is still what a lookup of its key in
\* its own trie gives, whatever has been written to the store since.
C13_GuardStable ==
  \A t \in Threads :
    HoldsGuard(t) =>
      /\ loc[t].root # nullptr
      /\ Get(heap, loc[t].root, loc[t].key, loc[t].ty) = loc[t].ret

\* C13 witness: a guard is held while the store has moved on to a trie in
\* which the key has another value or none.
C13_Witness ==
  \E t \in Threads :
    /\ HoldsGuard(t)
    /\ root_ # loc[t].root
    /\ Get(heap, root_, loc[t].key, loc[t].ty) # loc[t].ret
    /\ WritersReturned

\* The statements between an acquisition of root_lock_ and its release.
RootLocked ==
  {"G29", "G31", "P55", "P57", "P63", "P65", "R78", "R80", "R86", "R88"}

\* C14: root_lock_ is held exactly during the copy and the overwrite of root_,
\* never during Trie::Get/Put/Remove; Get never holds write_lock_; so while a
\* writer computes, root_lock_ is free or held for a copy or an overwrite.
C14_ShortPublishLock ==
  /\ \A t \in Threads : (root_lock_ = t) <=> (pc[t] \in RootLocked)
  /\ \A t \in Threads : pc[t] \in {"G34", "P59", "R82"} => root_lock_ # t
  /\ \A t \in Threads : loc[t].op = "Get" => write_lock_ # t
  /\ \A w \in Threads :
       (pc[w] \in {"P59", "R82"} /\ ~fault) =>
         /\ root_lock_ # w
         /\ \A g \in Threads : pc[g] = "G27" /\ root_lock_ = 0 => ENABLED G27(g)

\* C14 witness: a Get holds root_lock_ while a writer computes its trie.
C14_Witness ==
  \E w, g \in Threads :
    /\ pc[w] \in {"P59", "R82"} /\ ~fault
    /\ pc[g] = "G29" /\ root_lock_ = g
    /\ write_lock_ = w

\* C17: a step that writes root_ is made by a thread holding write_lock_ and
\* root_lock_, a step that reads root_ by a thread holding root_lock_, and
\* no other step changes root_.
C17_Step ==
  /\ \A t \in Threads :
       /\ (pc[t] \in {"P63", "R86"} /\ pc'[t] # pc[t]) =>
            write_lock_ = t /\ root_lock_ = t
       /\ (pc[t] \in {"G29", "P55", "R78"} /\ pc'[t] # pc[t]) =>
            root_lock_ = t
  /\ root_' # root_ =>
       \E t \in Threads : pc[t] \in {"P63", "R86"} /\ pc'[t] # pc[t]

C17_RootGuarded == [][C17_Step]_vars

\* C17 witness: a writer has just overwritten root_ and still holds both
\* locks, while a Get waits for root_lock_.
C17_Witness ==
  \E w, g \in Threads :
    /\ pc[w] \in {"P65", "R88"}
    /\ write_lock_ = w /\ root_lock_ = w
    /\ root_ = loc[w].root /\ root_ # nullptr
    /\ pc[g] = "G27"

\* write_lock_ is taken before root_lock_: no thread waits for write_lock_
\* while it holds root_lock_, and a writer that holds root_lock_ holds
\* write_lock_.
LockOrder ==
  \A t \in Threads :
    /\ pc[t] \in {"P51", "R74"} => root_lock_ # t
    /\ (root_lock_ = t /\ loc[t].op \in {"Put", "Remove"}) => write_lock_ = t

\* C18 (as claimed): the locks are taken in one order and every started call
\* eventually returns, holding no lock.
C18_EveryCallReturns ==
  /\ []LockOrder
  /\ \A t \in Threads :
       (pc[t] # "idle") ~> (pc[t] = "idle" /\ root_lock_ # t /\ write_lock_ # t)

\* The keys a map holds.
HeldKeys(m) == {k \in Keys : m[k] # <<>>}

\* The positions at which the trie rooted at root has a node.
PositionsOf(h, root) == {p \in Positions : NodeAt(h, root, p) # nullptr}

\* The positions at which the trie rooted at root has a value node.
ValuePositions(h, root) ==
  {p \in PositionsOf(h, root) : h[NodeAt(h, root, p)].is_value_node}

\* C19 (as claimed): every sequence of Put and Remove from the empty trie
\* produces a trie, and its shape is the one its map fixes: a node at each
\* prefix of a held key and nowhere else, a value at each held key and
\* nowhere else; so the empty map gives the trie without a root.
C19_CanonicalShape ==
  /\ ~fault
  /\ PositionsOf(heap, Cur) = UNION {Prefixes(k) : k \in HeldKeys(amap)}
  /\ ValuePositions(heap, Cur) = HeldKeys(amap)
  /\ (HeldKeys(amap) = {}) => Cur = nullptr

====
